---------------------------- MODULE Spec2Model ----------------------------
(***************************************************************************)
(* A model of models/matcher.py: HungarianMatcher (construction, forward)  *)
(* and of the two things forward calls: the box helpers of util.box_ops    *)
(* and scipy.optimize.linear_sum_assignment.                               *)
(*                                                                         *)
(* Tensors are functions over 0-based index ranges, as in the code.  Real  *)
(* numbers are integers, or exact rationals [n, d] with d > 0 in lowest    *)
(* terms; the record with d = 0 is the IEEE NaN that a division 0/0        *)
(* produces, and it propagates through every arithmetic operation as it    *)
(* does in torch.                                                          *)
(***************************************************************************)
EXTENDS Integers, Sequences, FiniteSets, TLC

VARIABLES
    matcher,    \* "none" | "ok" | "failed": the outcome of HungarianMatcher(...)
    weights,    \* the fields self.cost_class, self.cost_bbox, self.cost_giou
    outputs,    \* the outputs argument of the last forward call
    targets,    \* the targets argument of the last forward call
    result,     \* what the last forward call returned (or that it raised)
    C,          \* the cost matrix the last forward call assembled (line 59)
    solved,     \* the slices handed to linear_sum_assignment by the last call
    calls,      \* number of forward calls made so far
    memo,       \* an earlier call remembered: its inputs and its result
    cost,       \* solver specification: the cost slice
    assignment, \* solver specification: what linear_sum_assignment returned
    boxes1,     \* geometry specification: first corner-form box
    boxes2,     \* geometry specification: second corner-form box
    giou        \* geometry specification: generalized_box_iou(boxes1, boxes2)

vars == <<matcher, weights, outputs, targets, result, C, solved, calls, memo,
          cost, assignment, boxes1, boxes2, giou>>

matcherVars == <<matcher, weights, outputs, targets, result, C, solved, calls, memo>>
solverVars  == <<cost, assignment>>
geomVars    == <<boxes1, boxes2, giou>>

----------------------------------------------------------------------------
(* Bounds of the model.                                                    *)

MaxCoord == 2       \* corner coordinates of the geometry specification: 0..MaxCoord
MaxEntries == 8     \* solver specification: a slice has at most MaxEntries entries
MaxCalls == 3       \* forward calls on one matcher
MaxTargets == 3     \* targets of one batch element
MaxWeight == 2      \* construction specification: weights in -MaxWeight..MaxWeight
MaxBatch == 2       \* shape specification: batch dimensions in 1..MaxBatch
MaxQueries == 2     \* shape specification: query dimensions in 1..MaxQueries

----------------------------------------------------------------------------
(* Real arithmetic.                                                        *)

Abs(x) == IF x < 0 THEN 0 - x ELSE x
Min2(a, b) == IF a <= b THEN a ELSE b
Max2(a, b) == IF a >= b THEN a ELSE b

RECURSIVE GCD(_, _)
GCD(a, b) == IF b = 0 THEN a ELSE GCD(b, a % b)

LCM(a, b) == (a * b) \div GCD(a, b)

NaN == [n |-> 0, d |-> 0]
IsNaN(x) == x.d = 0

\* n/d as a float: 0/0 is NaN; the quotient is kept in lowest terms
Frac(n, d) ==
    IF d = 0 THEN NaN
    ELSE LET g == GCD(Abs(n), Abs(d))
             s == IF d < 0 THEN 0 - 1 ELSE 1
         IN  [n |-> (s * n) \div g, d |-> (s * d) \div g]

R(k) == [n |-> k, d |-> 1]

RAdd(x, y) == IF IsNaN(x) \/ IsNaN(y) THEN NaN ELSE Frac(x.n * y.d + y.n * x.d, x.d * y.d)
RNeg(x)    == IF IsNaN(x) THEN NaN ELSE [n |-> 0 - x.n, d |-> x.d]
RSub(x, y) == RAdd(x, RNeg(y))
RMul(x, y) == IF IsNaN(x) \/ IsNaN(y) THEN NaN ELSE Frac(x.n * y.n, x.d * y.d)
RDiv(x, y) == IF IsNaN(x) \/ IsNaN(y) THEN NaN ELSE Frac(x.n * y.d, x.d * y.n)
\* comparisons with NaN are false, as in IEEE arithmetic
RLt(x, y)  == ~IsNaN(x) /\ ~IsNaN(y) /\ x.n * y.d < y.n * x.d
RLe(x, y)  == ~IsNaN(x) /\ ~IsNaN(y) /\ x.n * y.d <= y.n * x.d
----------------------------------------------------------------------------
(* util.box_ops.  A box is a 4-tuple of integers, indexed 1..4.  Corner    *)
(* coordinates count half units of the centre-size coordinates, so that    *)
(* cx - w/2 is the integer 2*cx - w; generalized_box_iou is a ratio of     *)
(* areas and does not depend on the unit.                                  *)

\* (cx, cy, w, h) -> (cx - w/2, cy - h/2, cx + w/2, cy + h/2), in half units
box_cxcywh_to_xyxy(b) ==
    <<2 * b[1] - b[3], 2 * b[2] - b[4], 2 * b[1] + b[3], 2 * b[2] + b[4]>>

box_area(b) == (b[3] - b[1]) * (b[4] - b[2])

\* area of the intersection of two corner-form boxes, 0 when they do not overlap
box_inter(a, b) ==
    Max2(0, Min2(a[3], b[3]) - Max2(a[1], b[1])) * Max2(0, Min2(a[4], b[4]) - Max2(a[2], b[2]))

\* a mutant of the union: the intersection is counted twice
UnionCountsIntersectionTwice(inter, area1, area2) == area1 + area2

\* union = area1 + area2 - inter
Union(inter, area1, area2) == area1 + area2 - inter

\* box_iou returns the IoU together with the union; the IoU is kept as its
\* numerator inter and its denominator union
box_iou(a, b) ==
    [inter |-> box_inter(a, b),
     union |-> Union(box_inter(a, b), box_area(a), box_area(b))]

\* area of the smallest box enclosing both
box_enclose(a, b) ==
    Max2(0, Max2(a[3], b[3]) - Min2(a[1], b[1])) * Max2(0, Max2(a[4], b[4]) - Min2(a[2], b[2]))

\* a mutant of the penalty term: it is left out
GIoUNoPenalty(iu, area) == Frac(iu.inter, iu.union)

\* iou - (area - union) / area, area being that of the enclosing box: the two
\* quotients over their common denominator; 0/0 in either makes the result NaN
GIoUFrom(iu, area) ==
    Frac(iu.inter * area - (area - iu.union) * iu.union, iu.union * area)

generalized_box_iou(a, b) == GIoUFrom(box_iou(a, b), box_enclose(a, b))

WellFormed(b) == b[3] >= b[1] /\ b[4] >= b[2]
PositiveArea(b) == b[3] > b[1] /\ b[4] > b[2]

Coords == 0..MaxCoord
CornerBoxes == Coords \X Coords \X Coords \X Coords
WellFormedBoxes == { b \in CornerBoxes : WellFormed(b) }

----------------------------------------------------------------------------
(* The parts of the state a specification does not use.                    *)

EmptyMatrix == [nr |-> 0, nc |-> 0, c |-> <<>>]

\* nothing constructed, nothing called
NoMatcher ==
    /\ matcher = "none"
    /\ weights = [cost_class |-> 0, cost_bbox |-> 0, cost_giou |-> 0]
    /\ result = [pc |-> "idle", indices |-> <<>>]
    /\ C = EmptyMatrix
    /\ solved = <<>>
    /\ calls = 0
    /\ memo = [pc |-> "idle", outputs |-> <<>>, targets |-> <<>>, indices |-> <<>>,
               between |-> FALSE]

IdleMatcher ==
    /\ NoMatcher
    /\ outputs = <<>>
    /\ targets = <<>>

IdleSolver ==
    /\ cost = <<>>
    /\ assignment = [pc |-> "idle", row_ind |-> <<>>, col_ind |-> <<>>]

IdleGeom ==
    /\ boxes1 = <<>>
    /\ boxes2 = <<>>
    /\ giou = [pc |-> "idle", val |-> NaN]

----------------------------------------------------------------------------
(* scipy.optimize.linear_sum_assignment, the solver forward calls on every *)
(* slice: the shortest augmenting path algorithm of scipy's                *)
(* rectangular_lsap (Crouse's variant of Jonker-Volgenant).  A matrix is a *)
(* record [nr, nc, c] with c[i][j] an integer, i in 0..nr-1, j in 0..nc-1. *)

Transpose(m) ==
    [nr |-> m.nc, nc |-> m.nr,
     c |-> [j \in 0..(m.nc - 1) |-> [i \in 0..(m.nr - 1) |-> m.c[i][j]]]]

\* one pass of the for loop of augmenting_path: the path cost of column j
\* through row a.i replaces the one known when it is lower
Relax(m, a, j, r) ==
    IF ~a.finite[j] \/ r < a.shortestPathCosts[j]
    THEN [a EXCEPT !.path[j] = a.i, !.shortestPathCosts[j] = r, !.finite[j] = TRUE]
    ELSE a

\* ... and column j (at position it) becomes the pick when its path cost is
\* lower, or equal with j unassigned
Pick(pick, it, s, unassigned) ==
    IF pick.infinite \/ s < pick.lowest \/ (s = pick.lowest /\ unassigned)
    THEN [infinite |-> FALSE, lowest |-> s, index |-> it]
    ELSE pick

\* the for loop of augmenting_path over the remaining columns
RECURSIVE ScanRemaining(_, _, _, _)
ScanRemaining(m, a, it, pick) ==
    IF it >= a.num_remaining THEN [a |-> a, pick |-> pick]
    ELSE LET j == a.remaining[it]
             s == Relax(m, a, j, a.minVal + m.c[a.i][j] - a.u[a.i] - a.v[j])
         IN  ScanRemaining(m, s, it + 1,
                           Pick(pick, it, s.shortestPathCosts[j], a.row4col[j] = -1))

\* the end of one pass of the while loop: the picked column leaves the
\* remaining ones; it is the sink when unassigned, else the search goes on from
\* the row assigned to it
Select(a, pick, j) ==
    IF pick.infinite THEN [a EXCEPT !.sink = -2]
    ELSE [a EXCEPT !.minVal = pick.lowest,
                   !.sink = IF a.row4col[j] = -1 THEN j ELSE -1,
                   !.i = IF a.row4col[j] = -1 THEN a.i ELSE a.row4col[j],
                   !.SC[j] = TRUE,
                   !.remaining[pick.index] = a.remaining[a.num_remaining - 1],
                   !.num_remaining = a.num_remaining - 1]

SelectPicked(scan) ==
    Select(scan.a, scan.pick,
           IF scan.pick.infinite THEN -1 ELSE scan.a.remaining[scan.pick.index])

\* the while loop of augmenting_path: grow the tree until a free column is reached
RECURSIVE SearchSink(_, _)
SearchSink(m, a) ==
    IF a.sink # -1 THEN a
    ELSE SearchSink(m,
            SelectPicked(ScanRemaining(m, [a EXCEPT !.SR[a.i] = TRUE], 0,
                            [infinite |-> TRUE, lowest |-> 0, index |-> -1])))

augmenting_path(m, s, curRow) ==
    SearchSink(m,
        [u |-> s.u, v |-> s.v, row4col |-> s.row4col, path |-> s.path,
         remaining |-> [it \in 0..(m.nc - 1) |-> m.nc - it - 1],
         num_remaining |-> m.nc,
         SR |-> [i \in 0..(m.nr - 1) |-> FALSE],
         SC |-> [j \in 0..(m.nc - 1) |-> FALSE],
         shortestPathCosts |-> [j \in 0..(m.nc - 1) |-> 0],
         finite |-> [j \in 0..(m.nc - 1) |-> FALSE],
         minVal |-> 0, i |-> curRow, sink |-> -1])

\* the augmentation: flip the assignments along the path from the sink to curRow
RECURSIVE Augment(_, _, _, _)
Augment(s, path, curRow, j) ==
    IF path[j] = curRow
    THEN [s EXCEPT !.row4col[j] = path[j], !.col4row[path[j]] = j]
    ELSE Augment([s EXCEPT !.row4col[j] = path[j], !.col4row[path[j]] = j],
                 path, curRow, s.col4row[path[j]])

\* the update of the dual variables after the search from curRow
UpdateDuals(m, s, curRow, a) ==
    [s EXCEPT
       !.u = [i \in 0..(m.nr - 1) |->
                IF i = curRow THEN s.u[i] + a.minVal
                ELSE IF a.SR[i]
                     THEN s.u[i] + a.minVal - a.shortestPathCosts[s.col4row[i]]
                     ELSE s.u[i]],
       !.v = [j \in 0..(m.nc - 1) |->
                IF a.SC[j] THEN s.v[j] - (a.minVal - a.shortestPathCosts[j])
                ELSE s.v[j]],
       !.path = a.path]

\* one pass of the for loop of solve
SolveRow(m, s, curRow, a) ==
    IF a.sink < 0 THEN [s EXCEPT !.infeasible = TRUE]
    ELSE Augment(UpdateDuals(m, s, curRow, a), a.path, curRow, a.sink)

\* the for loop of solve over the rows of a matrix with nr <= nc
RECURSIVE SolveRows(_, _, _)
SolveRows(m, s, curRow) ==
    IF curRow >= m.nr \/ s.infeasible THEN s
    ELSE SolveRows(m, SolveRow(m, s, curRow, augmenting_path(m, s, curRow)), curRow + 1)

\* col4row of a matrix with nr <= nc and nr, nc >= 1
calculate_assignment(m) ==
    SolveRows(m,
        [u |-> [i \in 0..(m.nr - 1) |-> 0],
         v |-> [j \in 0..(m.nc - 1) |-> 0],
         path |-> [j \in 0..(m.nc - 1) |-> -1],
         col4row |-> [i \in 0..(m.nr - 1) |-> -1],
         row4col |-> [j \in 0..(m.nc - 1) |-> -1],
         infeasible |-> FALSE], 0).col4row

\* the indices of f in the order of f's (distinct) values
argsort(f, n) ==
    [k \in 1..n |-> CHOOSE i \in 0..(n - 1) :
                        Cardinality({ i2 \in 0..(n - 1) : f[i2] < f[i] }) = k - 1]

\* a mutant of the solver: each row takes its cheapest column not taken yet
RECURSIVE GreedyRows(_, _, _)
GreedyRows(m, i, taken) ==
    IF i >= m.nr THEN [i2 \in {} |-> 0]
    ELSE LET j == CHOOSE j1 \in (0..(m.nc - 1)) \ taken :
                    \A j2 \in (0..(m.nc - 1)) \ taken :
                        m.c[i][j1] < m.c[i][j2] \/ (m.c[i][j1] = m.c[i][j2] /\ j1 <= j2)
         IN  (i :> j) @@ GreedyRows(m, i + 1, taken \cup {j})

\* the answer for a matrix with nr <= nc: row k is paired with column b[k]
WideAnswer(n, b) ==
    [row_ind |-> [k \in 1..n |-> k - 1], col_ind |-> [k \in 1..n |-> b[k - 1]]]

\* the answer for a tall matrix, solved transposed: column k is paired with row
\* b[k], and the pairs are returned in the order of their rows
TallAnswer(n, b, o) ==
    [row_ind |-> [k \in 1..n |-> b[o[k]]], col_ind |-> o]

SortedTallAnswer(n, b) == TallAnswer(n, b, argsort(b, n))

GreedyAssignment(m) ==
    IF m.nr = 0 \/ m.nc = 0 THEN [row_ind |-> <<>>, col_ind |-> <<>>]
    ELSE IF m.nc < m.nr THEN SortedTallAnswer(m.nc, GreedyRows(Transpose(m), 0, {}))
    ELSE WideAnswer(m.nr, GreedyRows(m, 0, {}))

\* a mutant of the solver: the answer of a tall matrix is not mapped back, its
\* rows and columns are those of the transposed matrix
UntransposedAssignment(m) ==
    IF m.nr = 0 \/ m.nc = 0 THEN [row_ind |-> <<>>, col_ind |-> <<>>]
    ELSE IF m.nc < m.nr THEN WideAnswer(m.nc, calculate_assignment(Transpose(m)))
    ELSE WideAnswer(m.nr, calculate_assignment(m))

\* (row_ind, col_ind): empty for an empty matrix; a tall matrix is solved
\* transposed
linear_sum_assignment(m) ==
    IF m.nr = 0 \/ m.nc = 0 THEN [row_ind |-> <<>>, col_ind |-> <<>>]
    ELSE IF m.nc < m.nr THEN SortedTallAnswer(m.nc, calculate_assignment(Transpose(m)))
    ELSE WideAnswer(m.nr, calculate_assignment(m))

----------------------------------------------------------------------------
(* HungarianMatcher.  A tensor of two or more dimensions is a sequence of  *)
(* sequences (its shape is read off the lengths); the rows of a flattened  *)
(* tensor and the columns of the concatenated targets are numbered from 0, *)
(* as in the code.  A logit k stands for k * ln 2, so that exp is 2^k and  *)
(* softmax is exact.                                                       *)

\* a mutant of the assert: every weight has to be non-zero
AllWeightsNonZero(w) == w.cost_class # 0 /\ w.cost_bbox # 0 /\ w.cost_giou # 0

\* the assert of __init__
WeightsAccepted(w) == w.cost_class # 0 \/ w.cost_bbox # 0 \/ w.cost_giou # 0

\* outputs["pred_logits"].shape[:2]
BatchSize(out)  == Len(out.pred_logits)
NumQueries(out) == Len(out.pred_logits[1])
NumClasses(out) == Len(out.pred_logits[1][1])

\* t.flatten(0, 1): row r of the flattened tensor
FlatRows(t)    == Len(t) * Len(t[1])
FlatRow(t, r)  == t[(r \div Len(t[1])) + 1][(r % Len(t[1])) + 1]

RECURSIVE SumExp(_, _)
SumExp(row, c) == IF c = 0 THEN 0 ELSE 2 ^ row[c] + SumExp(row, c - 1)

\* softmax(-1) of one row of logits, at class c (numbered from 0)
softmax(row, c) == Frac(2 ^ row[c + 1], SumExp(row, Len(row)))

\* torch.cat([v["labels"] for v in targets]), torch.cat([v["boxes"] for v in targets])
RECURSIVE CatLabels(_)
CatLabels(tg) == IF tg = <<>> THEN <<>> ELSE Head(tg).labels \o CatLabels(Tail(tg))
RECURSIVE CatBoxes(_)
CatBoxes(tg) == IF tg = <<>> THEN <<>> ELSE Head(tg).boxes \o CatBoxes(Tail(tg))

\* sizes = [len(v["boxes"]) for v in targets]; the columns before block b
Sizes(tg) == [b \in 1..Len(tg) |-> Len(tg[b].boxes)]
RECURSIVE Offset(_, _)
Offset(tg, b) == IF b <= 1 THEN 0 ELSE Len(tg[b - 1].boxes) + Offset(tg, b - 1)
Total(tg) == Offset(tg, Len(tg) + 1)

\* an index tensor may hold negative indices, which count from the end
WrapIndex(l, n) == IF l < 0 THEN l + n ELSE l
IndexInRange(l, n) == 0 - n <= l /\ l < n

\* cost_class = -out_prob[:, tgt_ids], at (r, j)
CostClassAt(out, tg, r, j) ==
    RNeg(softmax(FlatRow(out.pred_logits, r), WrapIndex(CatLabels(tg)[j + 1], NumClasses(out))))

\* cost_bbox = torch.cdist(out_bbox, tgt_bbox, p=1), at (r, j)
L1(a, b) == R(Abs(a[1] - b[1]) + Abs(a[2] - b[2]) + Abs(a[3] - b[3]) + Abs(a[4] - b[4]))

CostBboxAt(out, tg, r, j) == L1(FlatRow(out.pred_boxes, r), CatBoxes(tg)[j + 1])

\* cost_giou = -generalized_box_iou(box_cxcywh_to_xyxy(out_bbox), box_cxcywh_to_xyxy(tgt_bbox))
CostGiouAt(out, tg, r, j) ==
    RNeg(generalized_box_iou(box_cxcywh_to_xyxy(FlatRow(out.pred_boxes, r)),
                             box_cxcywh_to_xyxy(CatBoxes(tg)[j + 1])))

\* the size of a dimension of a sum of two tensors; -1 when they do not broadcast
Broadcast(a, b) == IF a = b THEN a ELSE IF a = 1 THEN b ELSE IF b = 1 THEN a ELSE 0 - 1
\* the index into an operand of size n of that dimension
Along(n, i) == IF n = 1 THEN 0 ELSE i

\* the shape of C before the view: cost_class is [B*P, len(tgt_ids)], cost_bbox
\* and cost_giou are [B'*P', len(tgt_bbox)]
CRows(out, tg) == Broadcast(FlatRows(out.pred_logits), FlatRows(out.pred_boxes))
CCols(out, tg) == Broadcast(Len(CatLabels(tg)), Len(CatBoxes(tg)))

\* a mutant of the weighted sum: the weights of the box terms are exchanged
SwappedWeightsC(w, out, tg, r, j) ==
    RAdd(RAdd(RMul(R(w.cost_giou),
                   CostBboxAt(out, tg, Along(FlatRows(out.pred_boxes), r),
                              Along(Len(CatBoxes(tg)), j))),
              RMul(R(w.cost_class),
                   CostClassAt(out, tg, Along(FlatRows(out.pred_logits), r),
                               Along(Len(CatLabels(tg)), j)))),
         RMul(R(w.cost_bbox),
              CostGiouAt(out, tg, Along(FlatRows(out.pred_boxes), r),
                         Along(Len(CatBoxes(tg)), j))))

\* C = self.cost_bbox * cost_bbox + self.cost_class * cost_class
\*     + self.cost_giou * cost_giou, at (r, j)
CAt(w, out, tg, r, j) ==
    RAdd(RAdd(RMul(R(w.cost_bbox),
                   CostBboxAt(out, tg, Along(FlatRows(out.pred_boxes), r),
                              Along(Len(CatBoxes(tg)), j))),
              RMul(R(w.cost_class),
                   CostClassAt(out, tg, Along(FlatRows(out.pred_logits), r),
                               Along(Len(CatLabels(tg)), j)))),
         RMul(R(w.cost_giou),
              CostGiouAt(out, tg, Along(FlatRows(out.pred_boxes), r),
                         Along(Len(CatBoxes(tg)), j))))

\* C as a matrix of CRows x CCols entries
CostMatrix(w, out, tg) ==
    [nr |-> CRows(out, tg), nc |-> CCols(out, tg),
     c |-> [r \in 0..(CRows(out, tg) - 1) |->
              [j \in 0..(CCols(out, tg) - 1) |-> CAt(w, out, tg, r, j)]]]

\* the last dimension of C.view(bs, num_queries, -1)
ViewCols(m, out) == (m.nr * m.nc) \div (BatchSize(out) * NumQueries(out))

\* C.view(bs, num_queries, -1)[b][q][k]: the element at that place of the
\* row-major storage of C
ViewAt(m, out, b, q, k) ==
    m.c[(((b * NumQueries(out) + q) * ViewCols(m, out)) + k) \div m.nc]
       [(((b * NumQueries(out) + q) * ViewCols(m, out)) + k) % m.nc]

\* a mutant of the split: every slice is read from the first batch element
FirstElementSlice(m, out, tg, b) ==
    [nr |-> NumQueries(out), nc |-> Len(tg[b].boxes),
     c |-> [q \in 0..(NumQueries(out) - 1) |->
              [j \in 0..(Len(tg[b].boxes) - 1) |->
                 ViewAt(m, out, 0, q, Offset(tg, b) + j)]]]

\* a mutant of the split: C is not split, every slice keeps all the columns
UnsplitSlice(m, out, tg, b) ==
    [nr |-> NumQueries(out), nc |-> Total(tg),
     c |-> [q \in 0..(NumQueries(out) - 1) |->
              [j \in 0..(Total(tg) - 1) |-> ViewAt(m, out, b - 1, q, j)]]]

\* c[i] for i, c in enumerate(C.split(sizes, -1)): the slice of batch element b
\* (numbered from 1), of shape [num_queries, sizes[b]]
Slice(m, out, tg, b) ==
    [nr |-> NumQueries(out), nc |-> Len(tg[b].boxes),
     c |-> [q \in 0..(NumQueries(out) - 1) |->
              [j \in 0..(Len(tg[b].boxes) - 1) |->
                 ViewAt(m, out, b - 1, q, Offset(tg, b) + j)]]]

\* what makes forward raise: torch.cat of an empty list, an index out of range
\* in out_prob[:, tgt_ids], operands of line 59 that do not broadcast, a view
\* or a split that does not fit, c[i] past the batch dimension
ShapeError(out, tg) ==
    \/ Len(tg) = 0
    \/ \E j \in 1..Len(CatLabels(tg)) : ~IndexInRange(CatLabels(tg)[j], NumClasses(out))
    \/ CRows(out, tg) < 0
    \/ CCols(out, tg) < 0
    \/ (CRows(out, tg) * CCols(out, tg)) % (BatchSize(out) * NumQueries(out)) # 0
    \/ Total(tg) # (CRows(out, tg) * CCols(out, tg)) \div (BatchSize(out) * NumQueries(out))
    \/ Len(tg) > BatchSize(out)

\* linear_sum_assignment raises on a matrix with a NaN entry
HasNaN(m) == \E i \in 0..(m.nr - 1), j \in 0..(m.nc - 1) : IsNaN(m.c[i][j])

RECURSIVE LCMOver(_, _)
LCMOver(f, S) ==
    IF S = {} THEN 1
    ELSE LET x == CHOOSE x \in S : TRUE IN LCM(f[x], LCMOver(f, S \ {x}))

\* the least common denominator of the entries of a slice
Denominator(m) ==
    LCMOver([p \in (0..(m.nr - 1)) \X (0..(m.nc - 1)) |-> m.c[p[1]][p[2]].d],
            (0..(m.nr - 1)) \X (0..(m.nc - 1)))

Scaled(m, d) ==
    [nr |-> m.nr, nc |-> m.nc,
     c |-> [i \in 0..(m.nr - 1) |-> [j \in 0..(m.nc - 1) |->
              m.c[i][j].n * (d \div m.c[i][j].d)]]]

\* the entries of a slice as the solver compares them: over their common
\* denominator
AsNumbers(m) == Scaled(m, Denominator(m))

\* the slices line 63 hands to linear_sum_assignment, one for every element
Slices(m, out, tg) == [b \in 1..Len(tg) |-> Slice(m, out, tg, b)]

Raised == [pc |-> "raised", indices |-> <<>>]

\* line 63 and 64: the pairs of every slice, or the error of the solver
Returned(slices) ==
    IF \E b \in DOMAIN slices : HasNaN(slices[b]) THEN Raised
    ELSE [pc |-> "returned",
          indices |-> [b \in DOMAIN slices |-> linear_sum_assignment(AsNumbers(slices[b]))]]

\* a mutant of forward: the call rescales the matcher's own weights
RescaledWeights(w) == [w EXCEPT !.cost_bbox = w.cost_bbox + 1]

\* forward reads self.cost_class, self.cost_bbox, self.cost_giou and assigns none
WeightsAfterForward(w) == w

----------------------------------------------------------------------------
(* The matcher specification: a constructed matcher is called on a batch,  *)
(* and then again and again on the batch with one prediction or one target *)
(* changed, a target added, or nothing changed.                            *)

Box(cx, cy, w, h) == <<cx, cy, w, h>>

\* predictions: a row of logits over two classes and a box (cx, cy, w, h)
PredPalette ==
    { [logits |-> <<1, 0>>, box |-> Box(1, 1, 2, 2)],
      [logits |-> <<0, 0>>, box |-> Box(3, 1, 2, 2)],
      [logits |-> <<0, 2>>, box |-> Box(2, 2, 1, 3)] }

\* targets: a class label and a box
TargetPalette ==
    { [label |-> 0, box |-> Box(1, 1, 2, 2)],
      [label |-> 1, box |-> Box(3, 2, 2, 2)],
      [label |-> 1, box |-> Box(2, 1, 4, 2)] }

\* the batches of the first call: two elements of two queries, and one of three
\* whose first two queries have the same logits
BaseOutputs ==
    { [pred_logits |-> << << <<1, 0>>, <<0, 0>> >>, << <<0, 2>>, <<1, 0>> >> >>,
       pred_boxes  |-> << <<Box(1, 1, 2, 2), Box(3, 1, 2, 2)>>,
                          <<Box(2, 2, 1, 3), Box(1, 1, 2, 2)>> >>],
      [pred_logits |-> << << <<1, 0>>, <<1, 0>>, <<0, 2>> >> >>,
       pred_boxes  |-> << <<Box(1, 1, 2, 2), Box(3, 1, 2, 2), Box(2, 2, 1, 3)>> >>] }

NoTargets(out) == [b \in 1..BatchSize(out) |-> [labels |-> <<>>, boxes |-> <<>>]]

\* cost_class, cost_bbox, cost_giou: the class term alone, unequal weights, and
\* the configuration __init__ rejects
Configs ==
    { [cost_class |-> 1, cost_bbox |-> 0, cost_giou |-> 0],
      [cost_class |-> 2, cost_bbox |-> 5, cost_giou |-> 3],
      [cost_class |-> 0, cost_bbox |-> 0, cost_giou |-> 0] }

Init ==
    /\ NoMatcher
    /\ outputs \in BaseOutputs
    /\ targets = NoTargets(outputs)
    /\ IdleSolver
    /\ IdleGeom

\* HungarianMatcher(cost_class, cost_bbox, cost_giou): the fields are assigned,
\* then the assert lets the constructor return or raises
Construct(W) ==
    /\ matcher = "none"
    /\ \E w \in W :
         /\ weights' = w
         /\ matcher' = IF WeightsAccepted(w) THEN "ok" ELSE "failed"
    /\ UNCHANGED <<outputs, targets, result, C, solved, calls, memo, solverVars, geomVars>>

\* matcher(out, tg): the call, and what the caller is left with.  memo keeps
\* the first call, and whether a call with other inputs came after it.
Call(out, tg) ==
    /\ matcher = "ok"
    /\ calls < MaxCalls
    /\ outputs' = out
    /\ targets' = tg
    /\ C' = IF ShapeError(out, tg) THEN EmptyMatrix ELSE CostMatrix(weights, out, tg)
    /\ solved' = IF ShapeError(out, tg) THEN <<>> ELSE Slices(C', out, tg)
    /\ result' = IF ShapeError(out, tg) THEN Raised ELSE Returned(solved')
    /\ weights' = WeightsAfterForward(weights)
    /\ calls' = calls + 1
    /\ memo' = IF calls = 0
               THEN [pc |-> result'.pc, outputs |-> out, targets |-> tg,
                     indices |-> result'.indices, between |-> FALSE]
               ELSE [memo EXCEPT !.between = @ \/ out # memo.outputs \/ tg # memo.targets]
    /\ UNCHANGED <<matcher, solverVars, geomVars>>

CallSame == Call(outputs, targets)

CallChangedPrediction ==
    \E b \in 1..BatchSize(outputs), q \in 1..NumQueries(outputs), p \in PredPalette :
        /\ <<outputs.pred_logits[b][q], outputs.pred_boxes[b][q]>> # <<p.logits, p.box>>
        /\ Call([pred_logits |-> [outputs.pred_logits EXCEPT ![b][q] = p.logits],
                 pred_boxes  |-> [outputs.pred_boxes EXCEPT ![b][q] = p.box]],
                targets)

CallAddedTarget ==
    \E b \in 1..Len(targets), t \in TargetPalette :
        /\ Len(targets[b].boxes) < MaxTargets
        /\ Call(outputs,
                [targets EXCEPT ![b] = [labels |-> Append(@.labels, t.label),
                                        boxes  |-> Append(@.boxes, t.box)]])

CallChangedTarget ==
    \E b \in 1..Len(targets), t \in TargetPalette :
        \E j \in 1..Len(targets[b].boxes) :
            /\ <<targets[b].labels[j], targets[b].boxes[j]>> # <<t.label, t.box>>
            /\ Call(outputs,
                    [targets EXCEPT ![b] = [labels |-> [@.labels EXCEPT ![j] = t.label],
                                            boxes  |-> [@.boxes EXCEPT ![j] = t.box]]])

Next ==
    \/ Construct(Configs)
    \/ CallSame
    \/ CallChangedPrediction
    \/ CallAddedTarget
    \/ CallChangedTarget

Spec == Init /\ [][Next]_vars

----------------------------------------------------------------------------
(* Construction specification: HungarianMatcher(...) with every triple of  *)
(* integer weights within the bounds, then calls on the constructed        *)
(* matcher.                                                                *)

AllWeights ==
    [cost_class : (0 - MaxWeight)..MaxWeight,
     cost_bbox  : (0 - MaxWeight)..MaxWeight,
     cost_giou  : (0 - MaxWeight)..MaxWeight]

NextConstruct ==
    \/ Construct(AllWeights)
    \/ CallSame

SpecConstruct == Init /\ [][NextConstruct]_vars

----------------------------------------------------------------------------
(* Shape specification: forward on inputs inside and outside its shape     *)
(* contract.  pred_logits is [B, P, 2] and pred_boxes is [B2, P2, 4]; the  *)
(* targets are a list of B elements of ElementPalette.                     *)

ShapeLogits(B, P) == [b \in 1..B |-> [q \in 1..P |-> <<b - 1, q - 1>>]]
ShapeBoxes(B, P)  == [b \in 1..B |-> [q \in 1..P |-> Box(b, q, 2, 2)]]

ShapeOutputs ==
    { [pred_logits |-> ShapeLogits(B, P), pred_boxes |-> ShapeBoxes(B2, P2)] :
        B \in 1..MaxBatch, P \in 1..MaxQueries, B2 \in 1..MaxBatch, P2 \in 1..MaxQueries }

\* one element of the targets: in the contract (0, 1 or 2 targets), a label -1,
\* a label equal to the number of classes, fewer labels than boxes, more
\* labels than boxes
ElementPalette ==
    { [labels |-> <<>>,         boxes |-> <<>>],
      [labels |-> <<0>>,        boxes |-> <<Box(1, 1, 2, 2)>>],
      [labels |-> <<1, 0>>,     boxes |-> <<Box(1, 1, 2, 2), Box(3, 2, 2, 2)>>],
      [labels |-> <<0 - 1>>,    boxes |-> <<Box(1, 1, 2, 2)>>],
      [labels |-> <<2>>,        boxes |-> <<Box(1, 1, 2, 2)>>],
      [labels |-> <<0>>,        boxes |-> <<Box(1, 1, 2, 2), Box(3, 2, 2, 2)>>],
      [labels |-> <<0, 1>>,     boxes |-> <<Box(1, 1, 2, 2)>>] }

ShapeTargets(out) == [1..BatchSize(out) -> ElementPalette]

DefaultConfig == { [cost_class |-> 1, cost_bbox |-> 1, cost_giou |-> 1] }

InitShape ==
    /\ NoMatcher
    /\ outputs \in ShapeOutputs
    /\ targets \in ShapeTargets(outputs)
    /\ IdleSolver
    /\ IdleGeom

NextShape ==
    \/ Construct(DefaultConfig)
    \/ CallSame

SpecShape == InitShape /\ [][NextShape]_vars

----------------------------------------------------------------------------
(* Solver specification: linear_sum_assignment on every integer slice      *)
(* within the bounds.                                                      *)

\* entries of a slice: negative, zero and positive, so that ties are frequent
CostVals == {0 - 1, 0, 1}

InitSolver ==
    /\ IdleMatcher
    /\ IdleGeom
    /\ \E nr \in 0..MaxEntries :
         \E nc \in 0..(IF nr = 0 THEN MaxEntries ELSE MaxEntries \div nr) :
            \E c \in [0..(nr - 1) -> [0..(nc - 1) -> CostVals]] :
               cost = [nr |-> nr, nc |-> nc, c |-> c]
    /\ assignment = [pc |-> "idle", row_ind |-> <<>>, col_ind |-> <<>>]

Solve ==
    /\ assignment.pc = "idle"
    /\ assignment' = [pc |-> "done"] @@ linear_sum_assignment(cost)
    /\ UNCHANGED <<cost, matcherVars, geomVars>>

NextSolver == Solve

SpecSolver == InitSolver /\ [][NextSolver]_vars

\* every valid assignment of k pairs: an injection from k rows (tall: columns)
\* of the smaller side into the other side, as a set of (row, column) pairs
Injections(k, n) ==
    { f \in [0..(k - 1) -> 0..(n - 1)] : \A x, y \in 0..(k - 1) : x # y => f[x] # f[y] }

RECURSIVE SumOver(_, _)
SumOver(f, S) ==
    IF S = {} THEN 0 ELSE LET x == CHOOSE x \in S : TRUE IN f[x] + SumOver(f, S \ {x})

ValidAssignments(m) ==
    IF m.nr <= m.nc
    THEN { { <<i, f[i]>> : i \in 0..(m.nr - 1) } : f \in Injections(m.nr, m.nc) }
    ELSE { { <<f[j], j>> : j \in 0..(m.nc - 1) } : f \in Injections(m.nc, m.nr) }

PairCost(m, pairs) == SumOver([p \in pairs |-> m.c[p[1]][p[2]]], pairs)

Pairs(a) == { <<a.row_ind[k], a.col_ind[k]>> : k \in 1..Len(a.row_ind) }

\* C1: the pairs linear_sum_assignment returns for a slice form a valid
\* assignment of min(P, G) pairs whose total cost is at most that of every other
\* valid assignment of the slice (negative entries and ties included).
C1_Optimal ==
    assignment.pc = "done" =>
        /\ Pairs(assignment) \in ValidAssignments(cost)
        /\ \A other \in ValidAssignments(cost) :
               PairCost(cost, Pairs(assignment)) <= PairCost(cost, other)

\* a slice with a negative entry and a tie, on which the cheapest entry of the
\* first row is not part of the optimum
C1_Witness ==
    /\ assignment.pc = "done"
    /\ cost.nr >= 2 /\ cost.nc >= 2
    /\ \E i \in 0..(cost.nr - 1), j \in 0..(cost.nc - 1) : cost.c[i][j] < 0
    /\ cost.c[0][0] = cost.c[0][1]
    /\ \E other \in ValidAssignments(cost) :
           PairCost(cost, Pairs(assignment)) < PairCost(cost, other)
    /\ \E other \in ValidAssignments(cost) :
           other # Pairs(assignment)
           /\ PairCost(cost, Pairs(assignment)) = PairCost(cost, other)

----------------------------------------------------------------------------
(* Geometry specification: generalized_box_iou on every pair of            *)
(* well-formed boxes with corners on the grid.                             *)

InitGeom ==
    /\ IdleMatcher
    /\ IdleSolver
    /\ boxes1 \in WellFormedBoxes
    /\ boxes2 \in WellFormedBoxes
    /\ giou = [pc |-> "idle", val |-> NaN]

ComputeGIoU ==
    /\ giou.pc = "idle"
    /\ giou' = [pc |-> "done", val |-> generalized_box_iou(boxes1, boxes2)]
    /\ UNCHANGED <<boxes1, boxes2, matcherVars, solverVars>>

NextGeom == ComputeGIoU

SpecGeom == InitGeom /\ [][NextGeom]_vars

GIoUDone == giou.pc = "done"
\* well-formed corner boxes on the grid: areas are integers
Area(b) == (b[3] - b[1]) * (b[4] - b[2])
Overlap(lo1, hi1, lo2, hi2) == Max2(0, Min2(hi1, hi2) - Max2(lo1, lo2))
Span(lo1, hi1, lo2, hi2) == Max2(hi1, hi2) - Min2(lo1, lo2)
Disjoint ==
    Overlap(boxes1[1], boxes1[3], boxes2[1], boxes2[3])
        * Overlap(boxes1[2], boxes1[4], boxes2[2], boxes2[4]) = 0
BothZeroArea == Area(boxes1) = 0 /\ Area(boxes2) = 0
\* the two boxes fill their smallest enclosing box exactly
Tiles ==
    Span(boxes1[1], boxes1[3], boxes2[1], boxes2[3])
        * Span(boxes1[2], boxes1[4], boxes2[2], boxes2[4])
    = Area(boxes1) + Area(boxes2)

\* C9, as claimed: generalized_iou of a well-formed box with itself is 1, boxes of
\* zero width or zero height included.
C9_SelfGIoUIsOne_AsClaimed ==
    (GIoUDone /\ boxes1 = boxes2) => giou.val = R(1)

\* C9, amended: generalized_iou of a well-formed box of positive width and height
\* with itself is 1; for a box of zero width or zero height it is 0/0, not a number.
C9_SelfGIoUIsOne ==
    (GIoUDone /\ boxes1 = boxes2) =>
        /\ PositiveArea(boxes1) => giou.val = R(1)
        /\ ~PositiveArea(boxes1) => IsNaN(giou.val)

C9_Witness ==
    GIoUDone /\ boxes1 = boxes2 /\ PositiveArea(boxes1) /\ giou.val = R(1)

\* C10, as claimed: generalized_iou of two disjoint well-formed boxes (touching
\* ones included) is strictly negative, and every value lies in (-1, 1].
C10_DisjointNegative_AsClaimed ==
    GIoUDone =>
        /\ Disjoint => RLt(giou.val, R(0))
        /\ RLt(R(0 - 1), giou.val) /\ RLe(giou.val, R(1))

\* C10, amended: for two well-formed boxes that are not both of zero area the
\* value lies in (-1, 1]; when their intersection area is 0 it is <= 0, and it is
\* strictly negative exactly when the two boxes do not fill their smallest
\* enclosing box.  For two boxes of zero area it is not a number.
C10_DisjointNegative ==
    GIoUDone =>
        /\ BothZeroArea => IsNaN(giou.val)
        /\ ~BothZeroArea =>
              /\ RLt(R(0 - 1), giou.val) /\ RLe(giou.val, R(1))
              /\ Disjoint => RLe(giou.val, R(0))
              /\ Disjoint => (RLt(giou.val, R(0)) <=> ~Tiles)

C10_Witness ==
    GIoUDone /\ Disjoint /\ ~BothZeroArea /\ PositiveArea(boxes1) /\ PositiveArea(boxes2)
             /\ ~Tiles /\ RLt(giou.val, R(0))

----------------------------------------------------------------------------
(* Properties of forward.  They are stated on the inputs as the caller     *)
(* passed them (outputs, targets), with arithmetic of their own.           *)

Called == result.pc # "idle"
Completed == result.pc = "returned"
P == NumQueries(outputs)
G(b) == Len(targets[b].boxes)
Elements == 1..Len(targets)
Values(seq) == { seq[k] : k \in 1..Len(seq) }

\* targets of the elements before b
Before(tg, b) == SumOver([e \in 1..(b - 1) |-> Len(tg[e].boxes)], 1..(b - 1))

\* softmax probability of class c
Prob(logits, c) ==
    Frac(2 ^ logits[c + 1], SumOver([k \in 1..Len(logits) |-> 2 ^ logits[k]], 1..Len(logits)))

Distance(a, b) == SumOver([k \in 1..4 |-> Abs(a[k] - b[k])], 1..4)

\* corners of (cx, cy, w, h), scaled by 2
Corners(b) == <<2 * b[1] - b[3], 2 * b[2] - b[4], 2 * b[1] + b[3], 2 * b[2] + b[4]>>

InterArea(a, b) == Overlap(a[1], a[3], b[1], b[3]) * Overlap(a[2], a[4], b[2], b[4])
UnionArea(a, b) == Area(a) + Area(b) - InterArea(a, b)
HullArea(a, b)  == Span(a[1], a[3], b[1], b[3]) * Span(a[2], a[4], b[2], b[4])

\* IoU - (hull - union) / hull
GIoU(a, b) ==
    RSub(Frac(InterArea(a, b), UnionArea(a, b)),
         Frac(HullArea(a, b) - UnionArea(a, b), HullArea(a, b)))

Entry(w, logits, box, label, tbox) ==
    RAdd(RAdd(RMul(R(w.cost_bbox), R(Distance(box, tbox))),
              RMul(R(w.cost_class), RNeg(Prob(logits, label)))),
         RMul(R(w.cost_giou), RNeg(GIoU(Corners(box), Corners(tbox)))))

\* C2: for every batch element b, forward returns two index sequences of equal
\* length min(P, G_b), prediction indices in [0, P), target indices in [0, G_b),
\* no index repeated within either sequence; when P = G_b both sequences are
\* permutations of [0, P).
C2_IndexSequences ==
    Completed =>
        \A b \in Elements :
            /\ Len(result.indices[b].row_ind) = Min2(P, G(b))
            /\ Len(result.indices[b].col_ind) = Min2(P, G(b))
            /\ Values(result.indices[b].row_ind) \subseteq 0..(P - 1)
            /\ Values(result.indices[b].col_ind) \subseteq 0..(G(b) - 1)
            /\ Cardinality(Values(result.indices[b].row_ind)) = Min2(P, G(b))
            /\ Cardinality(Values(result.indices[b].col_ind)) = Min2(P, G(b))
            /\ P = G(b) => /\ Values(result.indices[b].row_ind) = 0..(P - 1)
                           /\ Values(result.indices[b].col_ind) = 0..(P - 1)

\* an element with as many targets as queries next to an element with fewer
\* targets than queries, whose target is not matched to the first query
C2_Witness ==
    /\ Completed
    /\ \E b \in Elements : G(b) = P /\ P >= 2
    /\ \E b \in Elements : G(b) >= 1 /\ G(b) < P /\ result.indices[b].row_ind # <<0>>

\* C3, as claimed: for every batch element with no targets forward returns two
\* empty index sequences, raises no error, and does not invoke the assignment
\* algorithm on that element.
C3_NoTargets_AsClaimed ==
    Called =>
        \A b \in Elements :
            G(b) = 0 =>
                /\ Completed
                /\ result.indices[b] = [row_ind |-> <<>>, col_ind |-> <<>>]
                /\ b \notin DOMAIN solved

\* C3, amended: for every batch element with no targets forward returns two
\* empty index sequences and raises no error; linear_sum_assignment is called
\* on that element's slice as on every other, the slice having P rows and no
\* column.
C3_NoTargets ==
    Called =>
        \A b \in Elements :
            G(b) = 0 =>
                /\ Completed
                /\ result.indices[b] = [row_ind |-> <<>>, col_ind |-> <<>>]
                /\ b \in DOMAIN solved
                /\ solved[b].nr = P
                /\ solved[b].nc = 0

\* an element without targets next to an element with targets
C3_Witness ==
    /\ Completed
    /\ \E b \in Elements : G(b) = 0 /\ result.indices[b].row_ind = <<>>
    /\ \E b \in Elements : G(b) >= 1 /\ result.indices[b].row_ind # <<>>

C5_OwnBlock ==
    Completed =>
        \A b \in Elements :
            /\ solved[b].nr = P
            /\ solved[b].nc = G(b)
            /\ \A q \in 0..(P - 1), j \in 0..(G(b) - 1) :
                   /\ solved[b].c[q][j] = C.c[(b - 1) * P + q][Before(targets, b) + j]
                   /\ solved[b].c[q][j] =
                          Entry(weights, outputs.pred_logits[b][q + 1],
                                outputs.pred_boxes[b][q + 1],
                                targets[b].labels[j + 1], targets[b].boxes[j + 1])

\* a call that follows a call, with element b's predictions and targets and
\* every target count the same
C5_OthersChanged(b) ==
    /\ Completed
    /\ result'.pc = "returned"
    /\ weights' = weights
    /\ Len(targets') = Len(targets)
    /\ \A e \in Elements : Len(targets'[e].boxes) = Len(targets[e].boxes)
    /\ outputs'.pred_logits[b] = outputs.pred_logits[b]
    /\ outputs'.pred_boxes[b] = outputs.pred_boxes[b]
    /\ targets'[b] = targets[b]

C5_Unaffected ==
    \A b \in Elements : C5_OthersChanged(b) => result'.indices[b] = result.indices[b]

\* C5: the slice solved for batch element b consists exactly of the cost entries
\* between b's own predictions (rows (b-1)*P .. of the flattened batch) and b's
\* own targets (the b-th column block of the concatenated targets); a call that
\* differs from the previous one only in other elements, target counts kept,
\* returns the same index pairs for b.
C5_OwnSlice == []C5_OwnBlock /\ [][C5_Unaffected]_vars

\* the first call and the last one differ in another element only
C5_Witness ==
    /\ Completed
    /\ memo.pc = "returned"
    /\ Len(memo.targets) = Len(targets)
    /\ \A e \in Elements : Len(memo.targets[e].boxes) = G(e)
    /\ \E b \in Elements :
          /\ G(b) >= 1
          /\ outputs.pred_logits[b] = memo.outputs.pred_logits[b]
          /\ outputs.pred_boxes[b] = memo.outputs.pred_boxes[b]
          /\ targets[b] = memo.targets[b]
          /\ result.indices[b] = memo.indices[b]
          /\ \E e \in Elements \ {b} :
                outputs.pred_logits[e] # memo.outputs.pred_logits[e]

C6_SameInputsSameResult ==
    (Called /\ outputs = memo.outputs /\ targets = memo.targets) =>
        /\ result.pc = memo.pc
        /\ result.indices = memo.indices

C6_WeightsKept == matcher = "ok" => weights' = weights

Tied(m) ==
    \E x, y \in ValidAssignments(m) :
        /\ x # y
        /\ PairCost(m, x) = PairCost(m, y)
        /\ \A z \in ValidAssignments(m) : PairCost(m, x) <= PairCost(m, z)

----------------------------------------------------------------------------
(* Properties of the constructor.                                          *)

AllZero(w) == w.cost_class = 0 /\ w.cost_bbox = 0 /\ w.cost_giou = 0

C4_Accepts(w)  == ENABLED (Construct({w}) /\ matcher' = "ok" /\ weights' = w)
C4_Rejects(w)  == ENABLED (Construct({w}) /\ matcher' = "failed")

\* C4: the constructor rejects the three weights 0, 0, 0 and the rejected
\* object cannot be called; it accepts every other triple and stores it; no
\* constructed matcher has three zero weights.
C4_Validated ==
    /\ matcher = "none" =>
          \A w \in AllWeights :
             /\ AllZero(w)  => C4_Rejects(w) /\ ~C4_Accepts(w)
             /\ ~AllZero(w) => C4_Accepts(w) /\ ~C4_Rejects(w)
    /\ matcher = "ok" => ~AllZero(weights)
    /\ matcher = "failed" => AllZero(weights) /\ calls = 0 /\ ~ENABLED CallSame

\* a matcher with one non-zero (negative) weight, constructed and called
C4_Witness ==
    /\ matcher = "ok"
    /\ weights.cost_class = 0
    /\ weights.cost_bbox = 0
    /\ weights.cost_giou < 0
    /\ Completed

----------------------------------------------------------------------------
(* Properties of forward outside its shape contract.                       *)

PredictionsDisagree ==
    \/ Len(outputs.pred_logits) # Len(outputs.pred_boxes)
    \/ Len(outputs.pred_logits[1]) # Len(outputs.pred_boxes[1])

CountsDisagree == \E b \in Elements : Len(targets[b].labels) # Len(targets[b].boxes)

LabelOutside ==
    \E b \in Elements : \E j \in 1..Len(targets[b].labels) :
        targets[b].labels[j] \notin 0..(NumClasses(outputs) - 1)

\* C7: a forward call whose inputs violate the shape contract (pred_logits and
\* pred_boxes disagree in batch or query dimension, an element with a number of
\* labels other than its number of boxes, a class label outside [0, C)) ends in
\* an error and returns no matching.
C7_MalformedRaises ==
    (Called /\ (PredictionsDisagree \/ CountsDisagree \/ LabelOutside)) => ~Completed

=============================================================================
